---- MODULE Spec2Model ----
(***************************************************************************)
(* Disk usage analyzer: the scan-and-aggregate pipeline (core/mod.rs,      *)
(* build_tree) and the navigation state machine (ui/app.rs, App).          *)
(*                                                                         *)
(* A path is the sequence of its components; a component is a natural      *)
(* number whose numeric order stands for the byte order of the name.       *)
(* An Option value is a set with at most one element: None is {} and       *)
(* Some(x) is {x}.                                                         *)
(***************************************************************************)
EXTENDS Integers, Sequences, FiniteSets, TLC

\* ------------------------------------------------------------------ bounds
MaxEntries == 3     \* file system objects below the scan root
MaxSize == 1        \* byte lengths of files are 0..MaxSize
MaxDelta == 2       \* move_selection is called with -MaxDelta..MaxDelta
MaxScanEntries == 2 \* objects below the scan root when some are links or fail
MaxCollected == 3   \* entries in a collected list that may hold a path twice
MaxKeys == 2        \* key events the Events thread reads
MaxTicks == 1       \* Tick events the Events thread sends

\* The names siblings carry, in byte order.
Names == {1, 2, 3}
Lens == 0..MaxSize
Deltas == (0 - MaxDelta)..MaxDelta

\* ------------------------------------------------------------------ paths
None == {}
Some(x) == {x}
Unwrap(opt) == CHOOSE x \in opt : TRUE

IsPrefix(p, q) == Len(p) <= Len(q) /\ SubSeq(q, 1, Len(p)) = p

\* The canonical scan root: one component below "/", which is <<>>.
RootPath == <<1>>

\* Path::parent: None for "/", otherwise the path without its last component.
parent(p) == IF p = <<>> THEN None ELSE Some(SubSeq(p, 1, Len(p) - 1))

\* Path::file_name: None for "/", otherwise the last component.
file_name(p) == IF p = <<>> THEN None ELSE Some(p[Len(p)])

\* Ord for Option<&OsStr>: None sorts before Some, Some by the name's bytes.
OptionLess(a, b) ==
    IF a = None THEN b # None
    ELSE b # None /\ Unwrap(a) < Unwrap(b)

\* Ord for PathBuf: lexicographic on the components.
RECURSIVE PathLess(_, _)
PathLess(p, q) ==
    IF p = <<>> THEN q # <<>>
    ELSE IF q = <<>> THEN FALSE
    ELSE IF Head(p) # Head(q) THEN Head(p) < Head(q)
    ELSE PathLess(Tail(p), Tail(q))

\* ------------------------------------------------------------ stable sort
\* The comparators handed to sort_by / sort_by_key, as "a sorts strictly
\* before b".
EntryLess(a, b) == PathLess(a.path, b.path)
NameLess(a, b) == OptionLess(file_name(a.path), file_name(b.path))
\* The size comparator with its operands in the ascending order.
SizeLessAscending(a, b) == a.size < b.size

SizeLess(a, b) == b.size < a.size

Less(mode, a, b) ==
    CASE mode = "Path" -> EntryLess(a, b)
      [] mode = "Name" -> NameLess(a, b)
      [] mode = "Size" -> SizeLess(a, b)

\* slice::sort_by is a stable sort: x goes after every element that does not
\* sort strictly after it.
Insert(mode, sorted, x) ==
    LET k == Cardinality({i \in 1..Len(sorted) : ~Less(mode, x, sorted[i])})
    IN  SubSeq(sorted, 1, k) \o <<x>> \o SubSeq(sorted, k + 1, Len(sorted))

\* A sort that leaves the sequence as it is.
StableSort_KeepsOrder(mode, s) == s

RECURSIVE StableSort(_, _)
StableSort(mode, s) ==
    IF s = <<>> THEN <<>>
    ELSE Insert(mode, StableSort(mode, SubSeq(s, 1, Len(s) - 1)), s[Len(s)])

\* ------------------------------------------------------------ file system
\* What the walk finds on disk: a regular file with its byte length, or
\* anything else (a directory).
Dir == [kind |-> "dir", len |-> 0]
File(n) == [kind |-> "file", len |-> n]
Objects == {Dir} \cup {File(n) : n \in Lens}

\* The paths that can be added below the scan root to the path set S.
Candidates(S) ==
    {Append(q, n) : q \in S \cup {RootPath}, n \in Names} \ S

\* The sets of at most k paths below the scan root that hold, with a path,
\* its parent.
RECURSIVE PathSets(_)
PathSets(k) ==
    IF k = 0 THEN {{}}
    ELSE LET prev == PathSets(k - 1)
         IN  prev \cup UNION {{S \cup {p} : p \in Candidates(S)} : S \in prev}

HasChild(S, p) == \E q \in S : parent(q) = Some(p)

\* The file systems under the scan root: only a directory has children.
FileSystems ==
    UNION {{f \in [S \cup {RootPath} -> Objects] :
              \A p \in DOMAIN f : HasChild(S, p) => f[p] = Dir}
           : S \in PathSets(MaxEntries)}

\* An object for which the walk yields Err, and a regular file whose
\* metadata() fails.
Failed == [kind |-> "error", len |-> 0]
Unreadable == [kind |-> "unreadable", len |-> 0]

\* What a symbolic link points to, as a map from the paths relative to the
\* link to the objects there: nothing (a broken link), a regular file, an
\* empty directory, or a directory holding one regular file; the files
\* are one byte long.
Targets ==
    {<<>>,
     (<<>> :> File(1)),
     (<<>> :> Dir),
     (<<>> :> Dir) @@ (<<1>> :> File(1))}
Link(t) == [kind |-> "symlink", len |-> 0, target |-> t]

ScanObjects == Objects \cup {Failed, Unreadable} \cup {Link(t) : t \in Targets}

\* The file systems with objects the walk fails on and symbolic links.
Leaves(S) == {p \in S \cup {RootPath} : ~HasChild(S, p)}
ScanFileSystems ==
    UNION {{[p \in S \cup {RootPath} |-> IF HasChild(S, p) THEN Dir ELSE g[p]] :
              g \in [Leaves(S) -> ScanObjects]}
           : S \in PathSets(MaxScanEntries)}

\* ------------------------------------------------------------- build_tree
\* The results the walk yields: Err, or Ok(dirent) with the dirent's path,
\* whether file_type() says regular file, and what metadata() returns.
Err(p) == [ok |-> FALSE, path |-> p, is_file |-> FALSE, md |-> None]
Ok(p, obj) ==
    [ok |-> TRUE, path |-> p,
     is_file |-> obj.kind \in {"file", "unreadable"},
     md |-> IF obj.kind = "unreadable" THEN None ELSE Some(obj.len)]

\* A walk that ignores the flag and follows no link.
WalkObject_NeverFollows(p, obj, follow) ==
    IF obj.kind = "error" THEN {Err(p)} ELSE {Ok(p, obj)}

\* WalkBuilder::new(root).follow_links(follow): a link that is not followed
\* is yielded as itself, neither file nor directory to descend into; a link
\* that is followed is yielded as what it points to, with what lies beneath
\* the target yielded beneath the link's path, and as Err when it is broken.
WalkObject(p, obj, follow) ==
    CASE obj.kind = "error" -> {Err(p)}
      [] obj.kind = "symlink" /\ ~follow -> {Ok(p, obj)}
      [] obj.kind = "symlink" /\ follow ->
            IF DOMAIN obj.target = {} THEN {Err(p)}
            ELSE {Ok(p \o q, obj.target[q]) : q \in DOMAIN obj.target}
      [] OTHER -> {Ok(p, obj)}

Walk(f, follow) == UNION {WalkObject(p, f[p], follow) : p \in DOMAIN f}

\* A closure that records the file whose metadata() fails with size 0.
EntryOf_KeepsUnreadable(r) ==
    IF ~r.ok THEN None
    ELSE IF r.is_file
         THEN Some([path |-> r.path, size |-> IF r.md = None THEN 0 ELSE Unwrap(r.md),
                    is_dir |-> FALSE])
         ELSE Some([path |-> r.path, size |-> 0, is_dir |-> TRUE])

\* The filter_map closure: a regular file is recorded with its length, any
\* other object with size 0 and is_dir = true; an Err, and a regular file
\* whose metadata() fails, is dropped.
EntryOf(r) ==
    IF ~r.ok THEN None
    ELSE IF r.is_file
         THEN IF r.md = None THEN None
              ELSE Some([path |-> r.path, size |-> Unwrap(r.md), is_dir |-> FALSE])
         ELSE Some([path |-> r.path, size |-> 0, is_dir |-> TRUE])

WalkEntries(f, follow) == UNION {EntryOf(r) : r \in Walk(f, follow)}

\* The orders in which the parallel bridge can collect the set S.
RECURSIVE EmissionOrders(_)
EmissionOrders(S) ==
    IF S = {} THEN {<<>>}
    ELSE UNION {{<<x>> \o s : s \in EmissionOrders(S \ {x})} : x \in S}

\* HashMap::entry(k).or_default()
or_default(m, k) == IF k \in DOMAIN m THEN m ELSE m @@ (k :> 0)

\* HashMap::entry(k).and_modify(|s| *s += v)
and_modify(m, k, v) == IF k \in DOMAIN m THEN [m EXCEPT ![k] = @ + v] ELSE m

\* A parent chain that stops at the immediate parent.
AddToParentOnly(m, cur, size) ==
    IF cur = None THEN m
    ELSE and_modify(or_default(m, Unwrap(cur)), Unwrap(cur), size)

\* The while loop over the parent chain of one entry.
RECURSIVE AddToAncestors(_, _, _)
AddToAncestors(m, cur, size) ==
    IF cur = None THEN m
    ELSE LET p == Unwrap(cur)
         IN  AddToAncestors(and_modify(or_default(m, p), p, size), parent(p), size)

\* One iteration of the aggregation loop.
AddEntry(m, e) ==
    LET m1 == or_default(m, e.path)
        m2 == IF e.size > 0 THEN and_modify(m1, e.path, e.size) ELSE m1
    IN  AddToAncestors(m2, parent(e.path), e.size)

\* The aggregation loop over the sorted entries, from the empty map.
RECURSIVE Aggregate(_)
Aggregate(es) ==
    IF es = <<>> THEN [k \in {} |-> 0]
    ELSE AddEntry(Aggregate(SubSeq(es, 1, Len(es) - 1)), es[Len(es)])

\* A build_node that takes every entry beneath the path as a child.
RECURSIVE build_node_TakesDescendants(_, _, _, _)
build_node_TakesDescendants(path, szs, is_dir, es) ==
    LET children_paths ==
            SelectSeq(es, LAMBDA e : IsPrefix(path, e.path) /\ e.path # path)
    IN  [path |-> path,
         size |-> IF path \in DOMAIN szs THEN szs[path] ELSE 0,
         is_dir |-> is_dir,
         children |-> [i \in 1..Len(children_paths) |->
                         build_node_TakesDescendants(children_paths[i].path, szs,
                                    children_paths[i].is_dir, es)]]

RECURSIVE build_node(_, _, _, _)
build_node(path, szs, is_dir, es) ==
    LET children_paths == SelectSeq(es, LAMBDA e : parent(e.path) = Some(path))
    IN  [path |-> path,
         size |-> IF path \in DOMAIN szs THEN szs[path] ELSE 0,
         is_dir |-> is_dir,
         children |-> [i \in 1..Len(children_paths) |->
                         build_node(children_paths[i].path, szs,
                                    children_paths[i].is_dir, es)]]

\* ------------------------------------------------------------------ state
VARIABLES
    pc,            \* "scan": before build_tree; "built": tree returned;
                   \* "tui": App constructed; "quit": Action::Quit seen;
                   \* "loop": in the loop of run_tui; "exit": the loop was
                   \* left by 'q'; "panicked": the thread has panicked
    fs,            \* the file system under the scan root (the input)
    entries,       \* build_tree: the collected entries, after sort_by_key
    sizes,         \* build_tree: the size map after the aggregation loop
    root_node,     \* build_tree: the returned tree
    current_node,  \* App.current_node
    stack,         \* App.stack
    sort_by,       \* App.sort_by
    selected,      \* App.selected
    action,        \* the Action dispatched last
    ret,           \* what the method called last returned
    pre,           \* the App fields as they were when that method was called
    follow_symlinks, \* build_tree's argument, cli.follow_symlinks
    tui_stack,     \* run_tui: stack, a Vec of (node, usize)
    tui_state,     \* run_tui: state.selected(), an Option
    tui_sort_by,   \* run_tui: sort_by
    key,           \* run_tui: the key the loop handled last
    tui_pre,       \* run_tui: its locals as they were when that key was read
    thread_pc,     \* Events: where the spawned thread is in its loop
    keys_read,     \* Events: the key codes event::read() has returned
    chan,          \* Events: the events sent and not yet received
    delivered,     \* Events: the events next() has returned
    handled        \* the actions handle_key_event gave for the keys delivered

vars == <<pc, fs, entries, sizes, root_node, current_node, stack, sort_by,
          selected, action, ret, pre, follow_symlinks, tui_stack, tui_state, tui_sort_by, key,
          tui_pre, thread_pc, keys_read, chan, delivered, handled>>

scan_vars == <<fs, follow_symlinks, entries, sizes, root_node>>
app_vars == <<current_node, stack, sort_by, selected>>
loop_vars == <<tui_stack, tui_state, tui_sort_by>>
event_vars == <<thread_pc, keys_read, chan, delivered, handled>>

NoNode == [path |-> <<>>, size |-> 0, is_dir |-> FALSE, children |-> <<>>]
NoAction == [kind |-> "None", delta |-> 0]

\* The fields of App.
AppState == [current_node |-> current_node, stack |-> stack,
             sort_by |-> sort_by, selected |-> selected]

\* The locals of run_tui.
LoopState == [stack |-> tui_stack, state |-> tui_state, sort_by |-> tui_sort_by]

\* Nothing aggregated or built, no App and no run_tui yet, no event read.
NothingBuilt ==
    /\ sizes = [k \in {} |-> 0]
    /\ root_node = NoNode
    /\ current_node = NoNode
    /\ stack = <<>>
    /\ sort_by = "Size"
    /\ selected = 0
    /\ action = NoAction
    /\ ret = FALSE
    /\ pre = AppState
    /\ tui_stack = <<>>
    /\ tui_state = None
    /\ tui_sort_by = "Size"
    /\ key = "None"
    /\ tui_pre = LoopState
    /\ thread_pc = "poll"
    /\ keys_read = <<>>
    /\ chan = <<>>
    /\ delivered = <<>>
    /\ handled = <<>>

\* Before build_tree is called, whatever is on disk.
InitWith(file_systems, flags) ==
    /\ pc = "scan"
    /\ fs \in file_systems
    /\ follow_symlinks \in flags
    /\ entries = <<>>
    /\ NothingBuilt

\* Plain files and directories, scanned with the flag's default.
Init == InitWith(FileSystems, {FALSE})

\* The entries build_tree can hold after collect() and sort_by_key: the
\* walk's entries, collected in some order and sorted by path.
SortedEntries(f, follow) ==
    {StableSort("Path", collected) :
        collected \in EmissionOrders(WalkEntries(f, follow))}

\* build_tree(root, follow_symlinks, pb): walk, sort, aggregate, build.
build_tree ==
    /\ pc = "scan"
    /\ \E es \in SortedEntries(fs, follow_symlinks) :
         LET szs == Aggregate(es)
         IN  /\ entries' = es
             /\ sizes' = szs
             /\ root_node' = build_node(RootPath, szs, TRUE, es)
    /\ pc' = "built"
    /\ UNCHANGED <<fs, follow_symlinks, app_vars, action, ret, pre, loop_vars,
                   key, tui_pre, event_vars>>

\* The entries the closure can produce for paths at and below the scan root,
\* and the lists collect() can hold if the walk yields a path more than once.
CollectedPaths == {RootPath, <<1, 1>>, <<1, 1, 1>>}
CollectedEntries ==
    {[path |-> p, size |-> n, is_dir |-> FALSE] : p \in CollectedPaths, n \in Lens}
        \cup {[path |-> p, size |-> 0, is_dir |-> TRUE] : p \in CollectedPaths}
CollectedLists == UNION {[1..n -> CollectedEntries] : n \in 0..MaxCollected}

\* build_tree after collect(): sort, aggregate, build.
build_tree_collected ==
    /\ pc = "collected"
    /\ LET es == StableSort("Path", entries)
           szs == Aggregate(es)
       IN  /\ entries' = es
           /\ sizes' = szs
           /\ root_node' = build_node(RootPath, szs, TRUE, es)
    /\ pc' = "built"
    /\ UNCHANGED <<fs, follow_symlinks, app_vars, action, ret, pre, loop_vars,
                   key, tui_pre, event_vars>>

\* SortBy::default()
SortByDefault == "Size"

\* App::new(root)
new ==
    /\ pc = "built"
    /\ current_node' = root_node
    /\ stack' = <<root_node>>
    /\ sort_by' = SortByDefault
    /\ selected' = 0
    /\ pc' = "tui"
    /\ UNCHANGED <<scan_vars, action, ret, pre, loop_vars, key, tui_pre,
                   event_vars>>

\* Vec::get(i) with a zero-based index.
Get(s, i) == IF i + 1 \in 1..Len(s) THEN Some(s[i + 1]) ELSE None

\* The bookkeeping of one dispatched action.
Dispatch(kind, delta) ==
    /\ pc = "tui"
    /\ action' = [kind |-> kind, delta |-> delta]
    /\ pre' = AppState
    /\ UNCHANGED <<pc, scan_vars, loop_vars, key, tui_pre, event_vars>>

\* navigate_into without the reset of the selection.
navigate_into_KeepsSelection ==
    /\ Dispatch("NavigateIn", 0)
    /\ LET got == Get(current_node.children, selected)
       IN  IF got # None /\ Unwrap(got).is_dir /\ Unwrap(got).children # <<>>
           THEN /\ stack' = Append(stack, Unwrap(got))
                /\ current_node' = Unwrap(got)
                /\ ret' = TRUE
                /\ UNCHANGED <<sort_by, selected>>
           ELSE /\ ret' = FALSE
                /\ UNCHANGED app_vars

\* navigate_into without the test for an empty directory.
navigate_into_EntersEmpty ==
    /\ Dispatch("NavigateIn", 0)
    /\ LET got == Get(current_node.children, selected)
       IN  IF got # None /\ Unwrap(got).is_dir
           THEN /\ stack' = Append(stack, Unwrap(got))
                /\ current_node' = Unwrap(got)
                /\ selected' = 0
                /\ ret' = TRUE
                /\ UNCHANGED sort_by
           ELSE /\ ret' = FALSE
                /\ UNCHANGED app_vars

\* navigate_into pushing the node being left instead of the one entered.
navigate_into_PushesCurrent ==
    /\ Dispatch("NavigateIn", 0)
    /\ LET got == Get(current_node.children, selected)
       IN  IF got # None /\ Unwrap(got).is_dir /\ Unwrap(got).children # <<>>
           THEN /\ stack' = Append(stack, current_node)
                /\ current_node' = Unwrap(got)
                /\ selected' = 0
                /\ ret' = TRUE
                /\ UNCHANGED sort_by
           ELSE /\ ret' = FALSE
                /\ UNCHANGED app_vars

\* App::navigate_into
navigate_into ==
    /\ Dispatch("NavigateIn", 0)
    /\ LET got == Get(current_node.children, selected)
       IN  IF got # None /\ Unwrap(got).is_dir /\ Unwrap(got).children # <<>>
           THEN LET new_node == Unwrap(got)
                IN  /\ stack' = Append(stack, new_node)
                    /\ current_node' = new_node
                    /\ selected' = 0
                    /\ ret' = TRUE
                    /\ UNCHANGED sort_by
           ELSE /\ ret' = FALSE
                /\ UNCHANGED app_vars

\* children.iter().position(|c| c.path == path), with a zero-based result.
position(children, path) ==
    LET hits == {i \in 1..Len(children) : children[i].path = path}
    IN  IF hits = {} THEN None
        ELSE Some((CHOOSE i \in hits : \A j \in hits : i <= j) - 1)

Min(a, b) == IF a <= b THEN a ELSE b
saturating_sub(a, b) == IF a >= b THEN a - b ELSE 0

\* navigate_out with the depth test off by one.
navigate_out_PopsRoot ==
    /\ Dispatch("NavigateOut", 0)
    /\ IF Len(stack) >= 1
       THEN LET popped == SubSeq(stack, 1, Len(stack) - 1)
            IN  /\ stack' = popped
                /\ IF popped # <<>>
                   THEN /\ current_node' = popped[Len(popped)]
                        /\ ret' = TRUE
                   ELSE /\ ret' = FALSE
                        /\ UNCHANGED current_node
                /\ UNCHANGED <<sort_by, selected>>
       ELSE /\ ret' = FALSE
            /\ UNCHANGED app_vars

\* navigate_out that pops the stack and leaves current_node as it was.
navigate_out_KeepsCurrent ==
    /\ Dispatch("NavigateOut", 0)
    /\ IF Len(stack) > 1
       THEN LET popped == SubSeq(stack, 1, Len(stack) - 1)
                prev_node == popped[Len(popped)]
                pos == position(prev_node.children, prev_node.path)
            IN  /\ stack' = popped
                /\ UNCHANGED current_node
                /\ selected' = IF pos # None
                               THEN Min(Unwrap(pos),
                                        saturating_sub(Len(prev_node.children), 1))
                               ELSE selected
                /\ ret' = TRUE
                /\ UNCHANGED sort_by
       ELSE /\ ret' = FALSE
            /\ UNCHANGED app_vars

\* App::navigate_out
navigate_out ==
    /\ Dispatch("NavigateOut", 0)
    /\ IF Len(stack) > 1
       THEN LET popped == SubSeq(stack, 1, Len(stack) - 1)
                prev_node == popped[Len(popped)]
                pos == position(prev_node.children, prev_node.path)
            IN  /\ stack' = popped
                /\ current_node' = prev_node
                /\ selected' = IF pos # None
                               THEN Min(Unwrap(pos),
                                        saturating_sub(Len(prev_node.children), 1))
                               ELSE selected
                /\ ret' = TRUE
                /\ UNCHANGED sort_by
       ELSE /\ ret' = FALSE
            /\ UNCHANGED app_vars

\* The remainder operator %, whose sign is that of the dividend.
rem_truncating(a, n) == IF a >= 0 THEN a % n ELSE 0 - ((0 - a) % n)

\* isize::rem_euclid
rem_euclid(a, n) == a % n

\* App::move_selection(delta)
move_selection ==
    \E delta \in Deltas :
        /\ Dispatch("MoveSelection", delta)
        /\ ret' = FALSE
        /\ IF current_node.children = <<>>
           THEN UNCHANGED app_vars
           ELSE /\ selected' = rem_euclid(selected + delta, Len(current_node.children))
                /\ UNCHANGED <<current_node, stack, sort_by>>

\* sort_children followed by a dedup on the sort key.
sort_children_Dedups(by, children) ==
    LET s == StableSort(by, children)
        keep == {i \in 1..Len(s) : i = 1 \/ Less(by, s[i - 1], s[i])}
    IN  [j \in 1..Cardinality(keep) |->
            s[CHOOSE i \in keep : Cardinality({k \in keep : k <= i}) = j]]

\* App::sort_children, for the order by
sort_children(by, children) ==
    CASE by = "Name" -> StableSort("Name", children)
      [] by = "Size" -> StableSort("Size", children)

\* The match in App::toggle_sort
Flip(by) == IF by = "Name" THEN "Size" ELSE "Name"

\* App::toggle_sort
toggle_sort ==
    /\ Dispatch("ToggleSort", 0)
    /\ ret' = FALSE
    /\ sort_by' = Flip(sort_by)
    /\ current_node' = [current_node EXCEPT
                          !.children = sort_children(Flip(sort_by), @)]
    /\ UNCHANGED <<stack, selected>>

\* Action::Quit ends the loop; the controller performs no transition.
quit ==
    /\ pc = "tui"
    /\ pc' = "quit"
    /\ action' = [kind |-> "Quit", delta |-> 0]
    /\ UNCHANGED <<scan_vars, app_vars, ret, pre, loop_vars, key, tui_pre,
                   event_vars>>

Next ==
    \/ build_tree
    \/ new
    \/ navigate_into
    \/ navigate_out
    \/ move_selection
    \/ toggle_sort
    \/ quit

Spec == Init /\ [][Next]_vars

\* ---------------------------------------------------------------- run_tui
\* TableState::default(): nothing selected.
TableStateDefault == None

\* run_tui(root), up to the loop.
run_tui ==
    /\ pc = "built"
    /\ tui_stack' = <<(<<root_node, 0>>)>>
    /\ tui_state' = TableStateDefault
    /\ tui_sort_by' = SortByDefault
    /\ pc' = "loop"
    /\ UNCHANGED <<scan_vars, app_vars, action, ret, pre, key, tui_pre,
                   event_vars>>

\* stack.last().unwrap().0
TopNode == tui_stack[Len(tui_stack)][1]

\* draw_ui: the rows of the table, the children of the top node sorted by
\* the current order.
draw_ui(st) ==
    LET node == st.stack[Len(st.stack)][1]
    IN  CASE st.sort_by = "Name" -> StableSort("Name", node.children)
          [] st.sort_by = "Size" -> StableSort("Size", node.children)

\* One turn of the loop with a key event read: the bookkeeping.
ReadKey(k) ==
    /\ pc = "loop"
    /\ key' = k
    /\ tui_pre' = LoopState
    /\ UNCHANGED <<scan_vars, app_vars, action, ret, pre, event_vars>>

\* KeyCode::Char('q')
key_q ==
    /\ ReadKey("q")
    /\ pc' = "exit"
    /\ UNCHANGED loop_vars

\* KeyCode::Char('s')
key_s ==
    /\ ReadKey("s")
    /\ tui_sort_by' = Flip(tui_sort_by)
    /\ UNCHANGED <<pc, tui_stack, tui_state>>

\* KeyCode::Down | KeyCode::Char('j')
key_down ==
    /\ ReadKey("Down")
    /\ LET len == Len(TopNode.children)
       IN  IF Len(tui_stack) = 0
           THEN pc' = "panicked" /\ UNCHANGED loop_vars
           ELSE /\ tui_state' =
                     IF len > 0
                     THEN IF tui_state # None /\ Unwrap(tui_state) + 1 < len
                          THEN Some(Unwrap(tui_state) + 1)
                          ELSE Some(0)
                     ELSE tui_state
                /\ UNCHANGED <<pc, tui_stack, tui_sort_by>>

\* KeyCode::Up | KeyCode::Char('k')
key_up ==
    /\ ReadKey("Up")
    /\ LET len == Len(TopNode.children)
       IN  IF Len(tui_stack) = 0
           THEN pc' = "panicked" /\ UNCHANGED loop_vars
           ELSE /\ tui_state' =
                     IF len > 0
                     THEN IF tui_state # None /\ Unwrap(tui_state) > 0
                          THEN Some(Unwrap(tui_state) - 1)
                          ELSE Some(len - 1)
                     ELSE tui_state
                /\ UNCHANGED <<pc, tui_stack, tui_sort_by>>

\* KeyCode::Right | KeyCode::Enter; indexing children[sel] past the end
\* panics, as does unwrap() on an empty stack.
key_enter ==
    /\ ReadKey("Enter")
    /\ IF tui_state = None
       THEN UNCHANGED <<pc, loop_vars>>
       ELSE LET sel == Unwrap(tui_state)
            IN  IF Len(tui_stack) = 0 \/ sel + 1 > Len(TopNode.children)
                THEN pc' = "panicked" /\ UNCHANGED loop_vars
                ELSE LET node == TopNode.children[sel + 1]
                     IN  IF node.is_dir /\ node.children # <<>>
                         THEN /\ tui_stack' = Append(tui_stack, <<node, 0>>)
                              /\ tui_state' = TableStateDefault
                              /\ UNCHANGED <<pc, tui_sort_by>>
                         ELSE UNCHANGED <<pc, loop_vars>>

\* The Left handler without the reset of the table state.
key_left_KeepsState ==
    /\ ReadKey("Left")
    /\ IF Len(tui_stack) > 1
       THEN /\ tui_stack' = SubSeq(tui_stack, 1, Len(tui_stack) - 1)
            /\ UNCHANGED tui_state
       ELSE UNCHANGED <<tui_stack, tui_state>>
    /\ UNCHANGED <<pc, tui_sort_by>>

\* KeyCode::Left | KeyCode::Backspace
key_left ==
    /\ ReadKey("Left")
    /\ IF Len(tui_stack) > 1
       THEN /\ tui_stack' = SubSeq(tui_stack, 1, Len(tui_stack) - 1)
            /\ tui_state' = TableStateDefault
       ELSE UNCHANGED <<tui_stack, tui_state>>
    /\ UNCHANGED <<pc, tui_sort_by>>

\* Any other key.
key_other ==
    /\ ReadKey("Other")
    /\ UNCHANGED <<pc, loop_vars>>

NextMain ==
    \/ run_tui
    \/ key_q
    \/ key_s
    \/ key_down
    \/ key_up
    \/ key_enter
    \/ key_left
    \/ key_other

\* build_tree alone, over objects the walk fails on and symbolic links, with
\* either value of the flag.
InitScan == InitWith(ScanFileSystems, BOOLEAN)
SpecScan == InitScan /\ [][build_tree]_vars

\* The part of build_tree after collect(), over lists that may hold a path
\* twice.
InitCollected ==
    /\ pc = "collected"
    /\ fs = <<>>
    /\ follow_symlinks = FALSE
    /\ entries \in CollectedLists
    /\ NothingBuilt
SpecCollected == InitCollected /\ [][build_tree_collected]_vars

\* ----------------------------------------------------------------- Events
\* The key codes handle_key_event tells apart, and one for every other code.
KeyCodes == {"q", "s", "Down", "j", "Up", "k", "Right", "Enter", "Left",
             "Backspace", "Other"}

\* Event::Input(key) and Event::Tick
Input(k) == [tag |-> "Input", code |-> k]
Tick == [tag |-> "Tick", code |-> "None"]

CountTicks(s) == Cardinality({i \in 1..Len(s) : s[i] = Tick})

\* The thread of Events::new, first half of its loop: poll, and send the
\* key if a key event was read.
thread_poll ==
    /\ pc = "events"
    /\ thread_pc = "poll"
    /\ \/ \E k \in KeyCodes :
             /\ Len(keys_read) < MaxKeys
             /\ keys_read' = Append(keys_read, k)
             /\ chan' = Append(chan, Input(k))
       \/ UNCHANGED <<keys_read, chan>>
    /\ thread_pc' = "tick"
    /\ UNCHANGED <<pc, scan_vars, app_vars, action, ret, pre, loop_vars, key,
                   tui_pre, delivered, handled>>

\* Second half: send Tick if tick_rate has elapsed.
thread_tick ==
    /\ pc = "events"
    /\ thread_pc = "tick"
    /\ \/ /\ CountTicks(delivered \o chan) < MaxTicks
          /\ chan' = Append(chan, Tick)
       \/ UNCHANGED chan
    /\ thread_pc' = "poll"
    /\ UNCHANGED <<pc, scan_vars, app_vars, action, ret, pre, loop_vars, key,
                   tui_pre, keys_read, delivered, handled>>

\* handle_key_event(key)
handle_key_event(k) ==
    CASE k = "q" -> Some([kind |-> "Quit", delta |-> 0])
      [] k = "s" -> Some([kind |-> "ToggleSort", delta |-> 0])
      [] k \in {"Down", "j"} -> Some([kind |-> "MoveSelection", delta |-> 1])
      [] k \in {"Up", "k"} -> Some([kind |-> "MoveSelection", delta |-> 0 - 1])
      [] k \in {"Right", "Enter"} -> Some([kind |-> "NavigateIn", delta |-> 0])
      [] k \in {"Left", "Backspace"} -> Some([kind |-> "NavigateOut", delta |-> 0])
      [] OTHER -> None

\* What one wake-up does with the event it received.
Handle(ev) ==
    IF ev.tag = "Input" /\ handle_key_event(ev.code) # None
    THEN <<Unwrap(handle_key_event(ev.code))>>
    ELSE <<>>

\* A receive that takes the event sent last.
Events_next_TakesNewest ==
    /\ pc = "events"
    /\ chan # <<>>
    /\ delivered' = Append(delivered, chan[Len(chan)])
    /\ chan' = SubSeq(chan, 1, Len(chan) - 1)
    /\ handled' = handled \o Handle(chan[Len(chan)])
    /\ UNCHANGED <<pc, scan_vars, app_vars, action, ret, pre, loop_vars, key,
                   tui_pre, thread_pc, keys_read>>

\* Events::next(): rx.recv() returns the oldest event in the channel.
Events_next ==
    /\ pc = "events"
    /\ chan # <<>>
    /\ delivered' = Append(delivered, Head(chan))
    /\ chan' = Tail(chan)
    /\ handled' = handled \o Handle(Head(chan))
    /\ UNCHANGED <<pc, scan_vars, app_vars, action, ret, pre, loop_vars, key,
                   tui_pre, thread_pc, keys_read>>

\* Events::new(tick_rate): the channel is empty, the thread is at the top of
\* its loop.
InitEvents ==
    /\ pc = "events"
    /\ fs = <<>>
    /\ follow_symlinks = FALSE
    /\ entries = <<>>
    /\ NothingBuilt
NextEvents == thread_poll \/ thread_tick \/ Events_next
SpecEvents == InitEvents /\ [][NextEvents]_vars

\* build_tree alone, over plain files and directories.
SpecBuild == Init /\ [][build_tree]_vars

\* main.rs: build_tree, then run_tui.
SpecMain == Init /\ [][build_tree \/ NextMain]_vars

\* Either navigation loop over the tree built: App, or the loop of run_tui.
SpecNav == Init /\ [][Next \/ NextMain]_vars

\* ----------------------------------------------------------- vocabulary
\* The nodes of the tree under n, n included.
RECURSIVE Nodes(_)
Nodes(n) == {n} \cup UNION {Nodes(n.children[i]) : i \in 1..Len(n.children)}

\* The sum of the sizes of a sequence of nodes.
RECURSIVE SumSizes(_)
SumSizes(ns) == IF ns = <<>> THEN 0 ELSE Head(ns).size + SumSizes(Tail(ns))

\* The sum of the sizes of a set of entries.
RECURSIVE SumEntries(_)
SumEntries(S) ==
    IF S = {} THEN 0
    ELSE LET e == CHOOSE x \in S : TRUE IN e.size + SumEntries(S \ {e})

\* The sum of the byte lengths of the regular files among the paths P.
RECURSIVE SumFiles(_)
SumFiles(P) ==
    IF P = {} THEN 0
    ELSE LET p == CHOOSE x \in P : TRUE
         IN  (IF fs[p].kind = "file" THEN fs[p].len ELSE 0) + SumFiles(P \ {p})

EntrySet == {entries[i] : i \in 1..Len(entries)}

\* Every path that is an entry or an ancestor of one, up to "/".
AggregatedPaths == UNION {{SubSeq(e.path, 1, k) : k \in 0..Len(e.path)} : e \in EntrySet}

Built == pc \notin {"scan", "collected", "events"}

\* ------------------------------------------------------------------ C1
\* C1: in the tree build_tree returns, every directory node's size is the
\* sum of its children's sizes and every file node's size is the byte length
\* of that file, the root node included.
C1_NodeSizes ==
    Built =>
        \A n \in Nodes(root_node) :
            IF n.is_dir THEN n.size = SumSizes(n.children)
            ELSE n.size = fs[n.path].len

\* ------------------------------------------------------------------ C2
\* C2: after the aggregation loop the size map holds, for every path that is
\* an entry or an ancestor of an entry, the sum of the sizes of the entries at
\* or beneath it; the root node's size is the sum of all scanned files, and a
\* directory without files beneath it is present with total 0.
C2_SizeMap ==
    Built =>
        /\ AggregatedPaths \subseteq DOMAIN sizes
        /\ \A p \in AggregatedPaths :
              sizes[p] = SumEntries({e \in EntrySet : IsPrefix(p, e.path)})
        /\ root_node.size = SumFiles(DOMAIN fs)
        /\ \A p \in DOMAIN fs :
              (fs[p].kind = "dir" /\ SumFiles({q \in DOMAIN fs : IsPrefix(p, q)}) = 0)
                  => p \in DOMAIN sizes /\ sizes[p] = 0

\* A tree with a file of positive length two levels below the root, beside
\* an empty directory.
C2_Witness ==
    /\ Built
    /\ \E e \in EntrySet : e.size > 0 /\ Len(e.path) = Len(RootPath) + 2
    /\ \E e \in EntrySet : e.is_dir /\ e.path # RootPath
                             /\ ~\E d \in EntrySet : parent(d.path) = Some(e.path)

\* ------------------------------------------------------- navigation terms
InApp == pc \in {"tui", "quit"}
Did(kind) == pc = "tui" /\ action.kind = kind

Front(s) == SubSeq(s, 1, Len(s) - 1)
Last(s) == s[Len(s)]

\* The child NavigateIn looks at in the state it was called in, and whether
\* that child can be entered.
PreChildren == pre.current_node.children
HasSelectedChild == pre.selected + 1 \in 1..Len(PreChildren)
SelectedChild == PreChildren[pre.selected + 1]
Enterable ==
    HasSelectedChild /\ SelectedChild.is_dir /\ SelectedChild.children # <<>>

\* ------------------------------------------------------------------ C3
\* C3: NavigateIn on a selected child that is a directory with at least one
\* child pushes exactly that child (depth grows by one, the new top and the
\* current node are that child), resets the selection to 0 and keeps the
\* sort order.
C3_NavigateInPushes ==
    (Did("NavigateIn") /\ Enterable) =>
        /\ stack = Append(pre.stack, SelectedChild)
        /\ Len(stack) = Len(pre.stack) + 1
        /\ Last(stack) = SelectedChild
        /\ current_node = SelectedChild
        /\ selected = 0
        /\ sort_by = pre.sort_by
        /\ ret = TRUE

\* NavigateIn has entered a directory that was not the first row.
C3_Witness ==
    /\ Did("NavigateIn")
    /\ Enterable
    /\ pre.selected > 0
    /\ Len(stack) = 2

\* ------------------------------------------------------------------ C4
\* C4: NavigateIn on a file, on a directory without children, or with no
\* child at the selection, changes nothing: stack, current node, selection
\* and sort order are as before.
C4_NavigateInNoOp ==
    (Did("NavigateIn") /\ ~Enterable) =>
        /\ stack = pre.stack
        /\ current_node = pre.current_node
        /\ selected = pre.selected
        /\ sort_by = pre.sort_by
        /\ ret = FALSE

\* NavigateIn was called on an empty directory, below the root view.
C4_Witness ==
    /\ Did("NavigateIn")
    /\ HasSelectedChild
    /\ SelectedChild.is_dir
    /\ SelectedChild.children = <<>>
    /\ Len(stack) = 2

\* ------------------------------------------------------------------ C5
\* The zero-based rows of the node just exited among the children of the
\* node returned to.
ExitedRows ==
    {i \in 0..(Len(current_node.children) - 1) :
        current_node.children[i + 1].path = Last(pre.stack).path}

\* C5: NavigateOut at depth greater than 1 pops exactly the top of the
\* stack, makes the new top the current node, and sets the selection to 0 or
\* else to the row of the node just exited.
C5_NavigateOutPops ==
    (Did("NavigateOut") /\ Len(pre.stack) > 1) =>
        /\ stack = Front(pre.stack)
        /\ current_node = Last(stack)
        /\ sort_by = pre.sort_by
        /\ selected = 0 \/ selected \in ExitedRows

\* ------------------------------------------------------------------ C6
\* C6: NavigateOut at depth 1 changes nothing (stack, current node,
\* selection, sort order), so the root is never popped and the stack is never
\* empty.
C6_NavigateOutAtRoot ==
    /\ (Did("NavigateOut") /\ Len(pre.stack) = 1) =>
          /\ stack = pre.stack
          /\ current_node = pre.current_node
          /\ selected = pre.selected
          /\ sort_by = pre.sort_by
          /\ ret = FALSE
    /\ InApp => (stack # <<>> /\ stack[1] = root_node)

\* NavigateOut was called in the root view, with a row other than the first
\* selected and the other sort order active.
C6_Witness ==
    /\ Did("NavigateOut")
    /\ Len(pre.stack) = 1
    /\ selected > 0
    /\ sort_by = "Name"

\* ------------------------------------------------------------------ C7
\* C7: MoveSelection(delta) on a node with n > 0 children sets the selection
\* to the residue of selection + delta in 0..n-1, for positive and negative
\* delta (+1 at n-1 gives 0, -1 at 0 gives n-1), and changes nothing when
\* n = 0.
C7_MoveSelectionWraps ==
    Did("MoveSelection") =>
        LET n == Len(PreChildren)
            target == pre.selected + action.delta
        IN  IF n = 0
            THEN /\ selected = pre.selected
                 /\ current_node = pre.current_node
                 /\ stack = pre.stack
                 /\ sort_by = pre.sort_by
            ELSE /\ selected \in 0..(n - 1)
                 /\ \E k \in (0 - MaxDelta - 1)..(MaxEntries + MaxDelta + 1) :
                        target = k * n + selected
                 /\ (action.delta = 1 /\ pre.selected = n - 1) => selected = 0
                 /\ (action.delta = 0 - 1 /\ pre.selected = 0) => selected = n - 1
                 /\ current_node = pre.current_node
                 /\ stack = pre.stack
                 /\ sort_by = pre.sort_by

\* MoveSelection(-1) has wrapped from the first of three rows to the last.
C7_Witness ==
    /\ Did("MoveSelection")
    /\ action.delta = 0 - 1
    /\ pre.selected = 0
    /\ Len(PreChildren) = 3
    /\ selected = 2

\* ------------------------------------------------------------ sort terms
\* The last path component of a node, and the key of a node under an order.
NameOf(n) == n.path[Len(n.path)]

\* Node a has to be listed before node b under the order by.
Before(by, a, b) ==
    IF by = "Size" THEN a.size > b.size ELSE NameOf(a) < NameOf(b)

SameKey(by, a, b) == ~Before(by, a, b) /\ ~Before(by, b, a)

\* The sequence ns is listed in the order by.
InOrder(by, ns) ==
    \A i, j \in 1..Len(ns) : i < j => ~Before(by, ns[j], ns[i])

\* The row of node x in the sequence ns.
RowOf(ns, x) == CHOOSE i \in 1..Len(ns) : ns[i] = x

\* after lists the nodes of before, each once, and nodes of equal key keep
\* the relative order they have in before.
StableRearrangement(by, before, after) ==
    /\ Len(after) = Len(before)
    /\ {after[i] : i \in 1..Len(after)} = {before[i] : i \in 1..Len(before)}
    /\ \A i, j \in 1..Len(before) :
          (i < j /\ SameKey(by, before[i], before[j]))
              => RowOf(after, before[i]) < RowOf(after, before[j])

\* ------------------------------------------------------------------ C8
\* C8: ToggleSort flips the sort order between Name and Size and leaves the
\* current node's children in the new order: descending by size under Size,
\* ascending by last path component under Name, children of equal key in
\* their prior relative order.
C8_ToggleSortOrders ==
    Did("ToggleSort") =>
        /\ sort_by \in {"Name", "Size"}
        /\ sort_by # pre.sort_by
        /\ InOrder(sort_by, current_node.children)
        /\ StableRearrangement(sort_by, PreChildren, current_node.children)

\* ToggleSort to Size has moved a child up past two children of equal size,
\* which kept their order.
C8_Witness ==
    /\ Did("ToggleSort")
    /\ sort_by = "Size"
    /\ Len(PreChildren) = 3
    /\ PreChildren[1].size = PreChildren[2].size
    /\ PreChildren[3].size > PreChildren[1].size
    /\ current_node.children = <<PreChildren[3], PreChildren[1], PreChildren[2]>>

\* ------------------------------------------------------------------ C9
\* C9: ToggleSort applied twice in a row returns the sort order to its prior
\* value and the current node's children to the order they had before the
\* first ToggleSort; and sorting again by the same order changes nothing.
C9_ToggleSortTwice ==
    [][(Did("ToggleSort") /\ action'.kind = "ToggleSort") =>
          /\ sort_by' = pre.sort_by
          /\ current_node'.children = PreChildren
          /\ sort_children(sort_by', current_node'.children) = current_node'.children
      ]_vars

\* ------------------------------------------------------------------ C10
\* The rows draw_file_list hands to the table: the children of the current
\* node, in the order they are stored.
draw_file_list == current_node.children

\* C10: in every state of App, from the initial one on and after NavigateIn
\* and NavigateOut, the children the presenter receives are listed in the
\* active sort order.
C10_RowsInSortOrder ==
    InApp => InOrder(sort_by, draw_file_list)

\* ------------------------------------------------------------------ C11
\* C11: after any sequence of navigation actions the stack starts at the
\* scan root and every further element is one of the children of the element
\* below it, its path's parent being that element's path.
C11_StackChain ==
    InApp =>
        /\ stack # <<>>
        /\ stack[1] = root_node
        /\ stack[1].path = RootPath
        /\ \A i \in 1..(Len(stack) - 1) :
              /\ \E k \in 1..Len(stack[i].children) :
                    stack[i].children[k] = stack[i + 1]
              /\ parent(stack[i + 1].path) = Some(stack[i].path)

\* NavigateIn has reached depth 3 from a view that was sorted by name.
C11_Witness ==
    /\ Did("NavigateIn")
    /\ Len(stack) = 3
    /\ sort_by = "Name"

\* ------------------------------------------------------------------ C12
\* The number of times x occurs in the sequence s.
Count(s, x) == Cardinality({i \in 1..Len(s) : s[i] = x})

\* The sequences a and b hold the same elements, each as often.
SameBag(a, b) ==
    /\ Len(a) = Len(b)
    /\ \A i \in 1..Len(a) : Count(a, a[i]) = Count(b, a[i])

\* C12: no navigation action changes tree content: every node of the stack
\* and the current node has the path, the size and the children (as a
\* multiset) of a node of the tree build_tree returned, and ToggleSort only
\* permutes the children of the current node.
C12_TreeContentKept ==
    InApp =>
        /\ LET nodes == Nodes(root_node)
               InTree(m) ==
                   \E n \in nodes :
                       /\ n.path = m.path
                       /\ n.size = m.size
                       /\ n.is_dir = m.is_dir
                       /\ SameBag(n.children, m.children)
           IN  /\ \A i \in 1..Len(stack) : InTree(stack[i])
               /\ InTree(current_node)
        /\ Did("ToggleSort") =>
              /\ stack = pre.stack
              /\ current_node.path = pre.current_node.path
              /\ current_node.size = pre.current_node.size
              /\ current_node.is_dir = pre.current_node.is_dir
              /\ SameBag(PreChildren, current_node.children)

\* ToggleSort has reordered the children of a view below the root.
C12_Witness ==
    /\ Did("ToggleSort")
    /\ Len(stack) = 2
    /\ Len(PreChildren) = 2
    /\ current_node.children # PreChildren

\* ------------------------------------------------------------------ C19
\* C19: in every state of App the selection is a valid row of the current
\* node whenever it has children, and 0 when it has none; also after
\* NavigateOut from a view whose selection exceeded the parent's rows.
C19_SelectionValid ==
    InApp =>
        IF current_node.children = <<>> THEN selected = 0
        ELSE selected \in 0..(Len(current_node.children) - 1)

\* ------------------------------------------------------------------- C20
InLoop == pc \in {"loop", "exit", "panicked"}
Pressed(k) == InLoop /\ key = k
EnterPushed == Pressed("Enter") /\ Len(tui_stack) = Len(tui_pre.stack) + 1

\* C20: in run_tui, a node pushed by Right/Enter is the child that draw_ui
\* showed at the highlighted row, in the sort order of that drawing.
C20_EnterPushesHighlighted ==
    EnterPushed =>
        /\ tui_pre.state # None
        /\ Unwrap(tui_pre.state) + 1 \in 1..Len(draw_ui(tui_pre))
        /\ Last(tui_stack)[1] = draw_ui(tui_pre)[Unwrap(tui_pre.state) + 1]

\* ------------------------------------------------------------------- C13
\* What a request that cannot be served must leave alone.
AppNoOp == AppState = pre
LoopNoOp == LoopState = tui_pre

InvalidNavigateIn == Did("NavigateIn") /\ ~Enterable
InvalidNavigateOut == Did("NavigateOut") /\ Len(pre.stack) = 1
InvalidMoveSelection == Did("MoveSelection") /\ PreChildren = <<>>

PreTop == tui_pre.stack[Len(tui_pre.stack)][1]
InvalidEnter ==
    /\ Pressed("Enter")
    /\ \/ tui_pre.state = None
       \/ Unwrap(tui_pre.state) + 1 > Len(PreTop.children)
       \/ LET node == PreTop.children[Unwrap(tui_pre.state) + 1]
          IN  ~(node.is_dir /\ node.children # <<>>)
InvalidLeft == Pressed("Left") /\ Len(tui_pre.stack) = 1
InvalidUpDown == (Pressed("Up") \/ Pressed("Down")) /\ PreTop.children = <<>>

\* C13: no navigation action panics or fails, in App and in run_tui alike:
\* each one can be taken in every state of its loop, none indexes a child
\* outside the children of the node shown, and a request that cannot be
\* served changes nothing.
C13_NavigationTotal ==
    /\ pc # "panicked"
    /\ pc = "tui" =>
          /\ stack # <<>>
          /\ ENABLED navigate_into
          /\ ENABLED navigate_out
          /\ ENABLED toggle_sort
          /\ \A d \in Deltas : ENABLED Dispatch("MoveSelection", d)
    /\ pc = "loop" =>
          /\ tui_stack # <<>>
          /\ tui_state # None => Unwrap(tui_state) < Len(TopNode.children)
          /\ ENABLED key_enter
          /\ ENABLED key_left
          /\ ENABLED key_up
          /\ ENABLED key_down
          /\ ENABLED key_s
    /\ InvalidNavigateIn => AppNoOp
    /\ InvalidNavigateOut => AppNoOp
    /\ InvalidMoveSelection => AppNoOp
    /\ InvalidEnter => LoopNoOp
    /\ InvalidLeft => LoopNoOp
    /\ InvalidUpDown => LoopNoOp

C13_Witness ==
    /\ InvalidEnter
    /\ Len(tui_stack) = 2
    /\ tui_pre.state = Some(Len(PreTop.children) - 1)

\* ------------------------------------------------------------- scan terms
\* What the walk yielded, and which of its results the closure records.
Yielded == Walk(fs, follow_symlinks)
Recorded(r) == r.ok /\ (r.is_file => r.md # None)
RecordedSize(r) == IF r.is_file THEN Unwrap(r.md) ELSE 0

\* The sum of the sizes recorded for a set of walk results.
RECURSIVE SumResults(_)
SumResults(R) ==
    IF R = {} THEN 0
    ELSE LET r == CHOOSE x \in R : TRUE
         IN  RecordedSize(r) + SumResults(R \ {r})

Ancestors(p) == {SubSeq(p, 1, k) : k \in 0..(Len(p) - 1)}
EntriesAt(p) == {i \in 1..Len(entries) : entries[i].path = p}
NodesAt(p) == {n \in Nodes(root_node) : n.path = p}

\* ------------------------------------------------------------------- C14
\* C14: build_tree returns a tree whatever the walk yields; a walk result
\* that is an error, and a regular file whose metadata cannot be read, is
\* left out of the entries, and every other result is recorded once, with
\* its size, and counted in the total of each of its ancestors.
C14_ScanSurvivesErrors ==
    /\ pc = "scan" => SortedEntries(fs, follow_symlinks) # {}
    /\ Built =>
          /\ root_node.path = RootPath
          /\ \A r \in Yielded :
                IF Recorded(r)
                THEN /\ Cardinality(EntriesAt(r.path)) = 1
                     /\ \A i \in EntriesAt(r.path) :
                           /\ entries[i].size = RecordedSize(r)
                           /\ entries[i].is_dir = ~r.is_file
                     /\ \A a \in Ancestors(r.path) :
                           /\ a \in DOMAIN sizes
                           /\ sizes[a] = SumResults({x \in Yielded :
                                            Recorded(x) /\ IsPrefix(a, x.path)})
                ELSE EntriesAt(r.path) = {}

\* A walk with an error beside a file that is not empty.
C14_Witness ==
    /\ Built
    /\ \E r \in Yielded : ~r.ok
    /\ \E r \in Yielded : Recorded(r) /\ RecordedSize(r) > 0 /\ r.path # RootPath

\* ------------------------------------------------------------------- C16
IsLink(p) == fs[p].kind = "symlink"

\* The bytes of the regular files at or beneath an object, links resolved.
RECURSIVE TargetBytes(_, _)
TargetBytes(t, Q) ==
    IF Q = {} THEN 0
    ELSE LET q == CHOOSE x \in Q : TRUE
         IN  (IF t[q].kind = "file" THEN t[q].len ELSE 0) + TargetBytes(t, Q \ {q})
ResolvedBytes(obj) ==
    CASE obj.kind = "file" -> obj.len
      [] obj.kind = "symlink" -> TargetBytes(obj.target, DOMAIN obj.target)
      [] OTHER -> 0
RECURSIVE SumResolved(_)
SumResolved(P) ==
    IF P = {} THEN 0
    ELSE LET p == CHOOSE x \in P : TRUE
         IN  ResolvedBytes(fs[p]) + SumResolved(P \ {p})

\* C16: a symbolic link that is not followed is one entry of size 0 without
\* children, and adds nothing to the total of any ancestor; a link that is
\* followed has the files of its target recorded beneath it, and their sizes
\* are part of the total of the link and of every ancestor up to the scan
\* root.
C16_SymlinkPolicy ==
    Built =>
        \A p \in {q \in DOMAIN fs : IsLink(q)} :
            IF ~follow_symlinks
            THEN /\ Cardinality(EntriesAt(p)) = 1
                 /\ \A i \in EntriesAt(p) : entries[i].size = 0
                 /\ \A e \in EntrySet : IsPrefix(p, e.path) => e.path = p
                 /\ NodesAt(p) # {}
                 /\ \A n \in NodesAt(p) : n.children = <<>> /\ n.size = 0
                 /\ \A a \in Ancestors(p) :
                       sizes[a] = SumEntries({e \in EntrySet :
                                      IsPrefix(a, e.path) /\ e.path # p})
            ELSE LET t == fs[p].target
                 IN  /\ \A q \in DOMAIN t :
                           t[q].kind = "file" =>
                               /\ \E e \in EntrySet :
                                     /\ e.path = p \o q
                                     /\ e.size = t[q].len
                                     /\ ~e.is_dir
                               /\ \E n \in NodesAt(p) :
                                     \E m \in Nodes(n) :
                                         m.path = p \o q /\ m.size = t[q].len
                     /\ \A a \in Ancestors(p) \cup {p} :
                           DOMAIN t # {} =>
                               /\ a \in DOMAIN sizes
                               /\ sizes[a] = SumResolved({r \in DOMAIN fs : IsPrefix(a, r)})
                               /\ \A n \in NodesAt(a) : n.size = sizes[a]

\* A followed link to a directory that holds a file, inside a directory
\* below the scan root.
C16_Witness ==
    /\ Built
    /\ follow_symlinks
    /\ \E p \in DOMAIN fs :
          /\ IsLink(p)
          /\ Len(p) = Len(RootPath) + 2
          /\ Cardinality(DOMAIN fs[p].target) = 2

\* ------------------------------------------------------------------- C17
EntryPaths == {e.path : e \in EntrySet}

\* Every path between the scan root and the entry, both excluded, is the
\* path of an entry.
ChainPresent(e) ==
    /\ IsPrefix(RootPath, e.path)
    /\ \A k \in (Len(RootPath) + 1)..(Len(e.path) - 1) :
          SubSeq(e.path, 1, k) \in EntryPaths

\* C17: the children of a node are the entries whose parent path is the
\* node's path, each one once and no other; so an entry whose parents up to
\* the scan root are all entries is in the tree; and the root node stands for
\* the scan root, as a directory of size 0 without children, also when the
\* scan yields no entry.
C17_ChildrenByParent ==
    Built =>
        /\ \A n \in Nodes(root_node) :
              LET kids == {i \in 1..Len(entries) : parent(entries[i].path) = Some(n.path)}
              IN  /\ Len(n.children) = Cardinality(kids)
                  /\ \A i \in kids :
                        Cardinality({k \in 1..Len(n.children) :
                                        /\ n.children[k].path = entries[i].path
                                        /\ n.children[k].is_dir = entries[i].is_dir}) = 1
        /\ \A e \in EntrySet : ChainPresent(e) => NodesAt(e.path) # {}
        /\ root_node.path = RootPath
        /\ root_node.is_dir
        /\ entries = <<>> =>
              root_node = [path |-> RootPath, size |-> 0, is_dir |-> TRUE,
                           children |-> <<>>]

\* A tree with an entry two levels below the scan root.
C17_Witness ==
    /\ Built
    /\ \E n \in Nodes(root_node) :
          /\ n.path = RootPath
          /\ \E k \in 1..Len(n.children) : n.children[k].children # <<>>

\* ------------------------------------------------------------------- C18
\* Of the entries with one path, the one that comes last.
LastEntries ==
    {entries[i] : i \in {k \in 1..Len(entries) :
                            \A j \in (k + 1)..Len(entries) :
                                entries[j].path # entries[k].path}}
HasDuplicatePath ==
    \E i, j \in 1..Len(entries) : i # j /\ entries[i].path = entries[j].path

RECURSIVE KeysOf(_)
KeysOf(s) ==
    IF s = <<>> THEN <<>>
    ELSE (IF Head(s).tag = "Input" THEN <<Head(s).code>> ELSE <<>>) \o KeysOf(Tail(s))

\* C15: the keys next() has returned, followed by the keys still in the
\* channel, are the keys the thread has read, each once and in the order
\* read, wherever Tick events fall; and a wake-up handles at most one
\* action, so no more actions were handled than events were delivered.
C15_KeysDeliveredInOrder ==
    pc = "events" =>
        /\ KeysOf(delivered \o chan) = keys_read
        /\ Len(handled) <= Len(KeysOf(delivered))

\* Two different keys delivered with a Tick between them.
C15_Witness ==
    /\ pc = "events"
    /\ Len(delivered) = 3
    /\ delivered[2] = Tick
    /\ delivered[1].tag = "Input"
    /\ delivered[3].tag = "Input"
    /\ delivered[1].code # delivered[3].code
    /\ Len(handled) = 1

\* ------------------------------------------------------------------- C21
\* The tree build_tree returns when collect() holds the entries in the
\* order given.
TreeOf(collected) ==
    LET es == StableSort("Path", collected)
    IN  build_node(RootPath, Aggregate(es), TRUE, es)

\* C21: the tree does not depend on the order in which the workers emit the
\* entries: every order of the walk's entries gives the tree that was built,
\* with the same paths, sizes, is_dir flags and order of children.
C21_EmissionOrderIrrelevant ==
    pc = "built" =>
        \A collected \in EmissionOrders(WalkEntries(fs, follow_symlinks)) :
            TreeOf(collected) = root_node

\* A tree of three entries, with siblings beside a nested entry, for which
\* the emission orders differ.
C21_Witness ==
    /\ pc = "built"
    /\ Len(entries) = 3
    /\ Len(root_node.children) = 1
    /\ Cardinality(EmissionOrders(WalkEntries(fs, follow_symlinks))) > 1

\* ------------------------------------------------------------------- C22
\* C22: App's two views of the position agree: the stack is never empty, and
\* current_node has the path, the size and the children of the top of the
\* stack, the children in any order.
C22_CurrentIsTop ==
    InApp =>
        /\ stack # <<>>
        /\ current_node.path = Last(stack).path
        /\ current_node.size = Last(stack).size
        /\ current_node.is_dir = Last(stack).is_dir
        /\ SameBag(current_node.children, Last(stack).children)

\* Back in the root view after NavigateIn, a re-sort and NavigateOut.
C22_Witness ==
    /\ Did("NavigateOut")
    /\ ret
    /\ Len(stack) = 1
    /\ pre.current_node # Last(pre.stack)

====
